---- MODULE Spec2Model ----
(***************************************************************************)
(* A model of flan.py: helper functions that load two-column tables        *)
(* exported by a spectrofluorometer, plot them, fit them and reduce them   *)
(* to summary statistics.                                                  *)
(*                                                                         *)
(* One behaviour of the model is one call of one function.  Init chooses   *)
(* the function and its arguments; the actions execute the function body   *)
(* in source order.  Everything a call does to the plotting library or to  *)
(* standard output is appended to log; ret and err are what the caller     *)
(* receives.                                                               *)
(*                                                                         *)
(* Numbers.  Table entries are integers.  Everything numpy derives from    *)
(* them (means, variances, fit coefficients, fitted values) is an exact    *)
(* rational [n, d]; floating-point rounding is not modelled.  [n |-> 0,    *)
(* d |-> 0] stands for NaN.  A standard deviation is kept as the surd      *)
(* [sqrt_of |-> variance].                                                 *)
(***************************************************************************)
EXTENDS Integers, Sequences, FiniteSets

VARIABLES fn, args, pc, data, i, log, ret, err

vars == <<fn, args, pc, data, i, log, ret, err>>

---------------------------------------------------------------------------
(* Bounds of the explored inputs. *)

\* table entries range over 0..MaxVal
MaxVal == 1
\* a file holds at most MaxRows lines after its two header lines
MaxRows == 3
\* multiplot is called with every combination of at most MaxFiles files
MaxFiles == 3
\* and with up to MaxSeries copies of one file
MaxSeries == 21
\* generate_fit is called with x values in 0..MaxX
MaxX == 2

Vals == 0 .. MaxVal

---------------------------------------------------------------------------
(* Sequences and exact rational arithmetic. *)

RECURSIVE SumSeq(_)
SumSeq(s) == IF s = <<>> THEN 0 ELSE Head(s) + SumSeq(Tail(s))

RECURSIVE MinSeq(_)
MinSeq(s) ==
    IF Len(s) = 1 THEN s[1]
    ELSE LET m == MinSeq(Tail(s)) IN IF s[1] < m THEN s[1] ELSE m

RECURSIVE MaxSeq(_)
MaxSeq(s) ==
    IF Len(s) = 1 THEN s[1]
    ELSE LET m == MaxSeq(Tail(s)) IN IF s[1] > m THEN s[1] ELSE m

RECURSIVE Concat(_)
Concat(ss) == IF ss = <<>> THEN <<>> ELSE Head(ss) \o Concat(Tail(ss))

SeqsUpTo(S, n) == UNION {[1 .. k -> S] : k \in 0 .. n}

Abs(a) == IF a < 0 THEN -a ELSE a

RECURSIVE GCD(_, _)
GCD(a, b) == IF b = 0 THEN a ELSE GCD(b, a % b)

NaN == [n |-> 0, d |-> 0]

IsNaN(r) == r.d = 0

\* the rational n/d in lowest terms with a positive denominator
Rat(n, d) ==
    IF d = 0 THEN NaN
    ELSE LET g == GCD(Abs(n), Abs(d))
             s == IF d < 0 THEN -1 ELSE 1
         IN  [n |-> (s * n) \div g, d |-> (s * d) \div g]

RInt(k) == [n |-> k, d |-> 1]

RAdd(a, b) ==
    IF IsNaN(a) \/ IsNaN(b) THEN NaN ELSE Rat(a.n * b.d + b.n * a.d, a.d * b.d)

RSub(a, b) ==
    IF IsNaN(a) \/ IsNaN(b) THEN NaN ELSE Rat(a.n * b.d - b.n * a.d, a.d * b.d)

RMul(a, b) == IF IsNaN(a) \/ IsNaN(b) THEN NaN ELSE Rat(a.n * b.n, a.d * b.d)

Sqrt(r) == [sqrt_of |-> r]

---------------------------------------------------------------------------
(* Outcomes of a library call: a value, or the exception it raises. *)

Ok(v) == [ok |-> TRUE, v |-> v, err |-> "none"]

Raise(e) == [ok |-> FALSE, v |-> <<>>, err |-> e]

---------------------------------------------------------------------------
(* Files.  A file is a sequence of lines; a line is a row of numbers, a    *)
(* line that is blank or holds a comment only, or text that is no number.  *)

NumLine(vs) == [kind |-> "num", vals |-> vs]

TextLine == [kind |-> "text", vals |-> <<>>]

BlankLine == [kind |-> "blank", vals |-> <<>>]

\* numpy arrays of 0, 1 and 2 dimensions
Array(nd, v) == [ndim |-> nd, v |-> v]

\* a loader that skips the rows it cannot read instead of raising, and
\* raises only when fewer than two rows are left
LoadTxtLenient(file) ==
    LET rest == SubSeq(file, 3, Len(file))
        rows == SelectSeq(rest, LAMBDA l : l.kind = "num" /\ Len(l.vals) >= 2)
        n    == Len(rows)
    IN  IF n < 2 THEN {Raise("ValueError")}
        ELSE {Ok(Array(2, [k \in 1 .. n |-> SubSeq(rows[k].vals, 1, 2)]))}

\* np.loadtxt(fname, skiprows=2): the first two lines are dropped unread,
\* blank lines are ignored, every other line must be a row of numbers of
\* one common width, and axes of length one are squeezed away (ndmin=0).
\* A file of fewer than two lines raises StopIteration in the numpy
\* releases that run under Python 2 and yields an empty array in later ones.
LoadTxt(file) ==
    LET rest == SubSeq(file, 3, Len(file))
        rows == SelectSeq(rest, LAMBDA l : l.kind # "blank")
        n    == Len(rows)
        w    == Len(rows[1].vals)
    IN  IF Len(file) < 2 THEN {Raise("StopIteration"), Ok(Array(1, <<>>))}
        ELSE IF \E k \in 1 .. n : rows[k].kind = "text" THEN {Raise("ValueError")}
        ELSE IF n = 0 THEN {Ok(Array(1, <<>>))}
        ELSE IF \E k \in 1 .. n : Len(rows[k].vals) # w THEN {Raise("ValueError")}
        ELSE IF n = 1 /\ w = 1 THEN {Ok(Array(0, rows[1].vals))}
        ELSE IF n = 1 THEN {Ok(Array(1, rows[1].vals))}
        ELSE IF w = 1 THEN {Ok(Array(1, [k \in 1 .. n |-> rows[k].vals[1]]))}
        ELSE {Ok(Array(2, [k \in 1 .. n |-> rows[k].vals]))}

Width(arr) == Len(arr.v[1])

\* arr[:, j] for a column j >= 0
Col(arr, j) ==
    IF arr.ndim # 2 THEN Raise("IndexError")
    ELSE IF j >= Width(arr) THEN Raise("IndexError")
    ELSE Ok([k \in 1 .. Len(arr.v) |-> arr.v[k][j + 1]])

\* arr[:, :2]
FirstTwoCols(arr) ==
    IF arr.ndim # 2 THEN Raise("IndexError")
    ELSE Ok(Array(2, [k \in 1 .. Len(arr.v) |-> SubSeq(arr.v[k], 1, 2)]))

\* np.column_stack((arr, col)) for a two-dimensional arr
ColumnStack(arr, col) ==
    IF Len(col) # Len(arr.v) THEN Raise("ValueError")
    ELSE Ok(Array(2, [k \in 1 .. Len(arr.v) |-> Append(arr.v[k], col[k])]))

---------------------------------------------------------------------------
(* Statistics and least-squares fits. *)

RECURSIVE RSum(_)
RSum(rs) == IF rs = <<>> THEN RInt(0) ELSE RAdd(Head(rs), RSum(Tail(rs)))

\* np.mean(col)
Mean(col) == Rat(SumSeq(col), Len(col))

\* np.std(col): sqrt(mean(abs(col - col.mean())**2)), the divisor is len(col)
Std(col) ==
    LET m  == Mean(col)
        sq == [k \in 1 .. Len(col) |->
                 RMul(RSub(RInt(col[k]), m), RSub(RInt(col[k]), m))]
        t  == RSum(sq)
    IN  Sqrt(Rat(t.n, t.d * Len(col)))

Dot(x, y) == SumSeq([k \in 1 .. Len(x) |-> x[k] * y[k]])

\* np.polyfit(x, y, deg) for deg 0 and 1: the coefficients of the
\* least-squares polynomial, highest degree first.  For deg = 1 the normal
\* equations have the determinant D = N*Sxx - Sx^2.  D = 0 means that all x
\* are one value c: the fit is rank deficient and polyfit returns the
\* solution of least norm in its column-scaled coordinates, (ybar/(2c),
\* ybar/2).  With c = 0 the scaling divides 0 by 0 and the solver is handed
\* NaN: depending on the LAPACK build it raises LinAlgError or returns NaN.
PolyFit(x, y, deg) ==
    LET N   == Len(x)
        Sx  == SumSeq(x)
        Sy  == SumSeq(y)
        Sxx == Dot(x, x)
        Sxy == Dot(x, y)
        D   == N * Sxx - Sx * Sx
    IN  IF deg < 0 THEN {Raise("ValueError")}
        ELSE IF N = 0 \/ Len(y) # N THEN {Raise("TypeError")}
        ELSE IF deg = 0 THEN {Ok(<<Rat(Sy, N)>>)}
        ELSE IF D # 0
               THEN {Ok(<<Rat(N * Sxy - Sx * Sy, D), Rat(Sy * Sxx - Sx * Sxy, D)>>)}
        ELSE IF x[1] # 0
               THEN {Ok(<<Rat(Sy, 2 * x[1] * N), Rat(Sy, 2 * N)>>)}
        ELSE {Raise("LinAlgError"), Ok(<<NaN, NaN>>)}

\* np.poly1d(c)(t): Horner's rule over the coefficients, highest degree first
RECURSIVE Horner(_, _, _)
Horner(c, t, acc) ==
    IF c = <<>> THEN acc ELSE Horner(Tail(c), t, RAdd(RMul(acc, RInt(t)), Head(c)))

PolyVal(c, t) == Horner(c, t, RInt(0))

\* a fit evaluated on the x values in ascending order
RECURSIVE SortedSeq(_)
SortedSeq(s) ==
    IF s = <<>> THEN <<>>
    ELSE LET m == MinSeq(s)
             p == CHOOSE k \in 1 .. Len(s) : s[k] = m
         IN  <<m>> \o SortedSeq(SubSeq(s, 1, p - 1) \o SubSeq(s, p + 1, Len(s)))

generate_fit_sorted(x, y, power) ==
    {IF o.ok THEN Ok([k \in 1 .. Len(x) |-> PolyVal(o.v, SortedSeq(x)[k])]) ELSE o :
        o \in PolyFit(x, y, power)}

\* generate_fit(x, y, power) = np.poly1d(np.polyfit(x, y, power))(x)
generate_fit(x, y, power) ==
    {IF o.ok THEN Ok([k \in 1 .. Len(x) |-> PolyVal(o.v, x[k])]) ELSE o :
        o \in PolyFit(x, y, power)}

---------------------------------------------------------------------------
(* The colour palette. *)

tableau20_rgb ==
    << <<31, 119, 180>>, <<174, 199, 232>>, <<255, 127, 14>>, <<255, 187, 120>>,
       <<44, 160, 44>>, <<152, 223, 138>>, <<214, 39, 40>>, <<255, 152, 150>>,
       <<148, 103, 189>>, <<197, 176, 213>>, <<140, 86, 75>>, <<196, 156, 148>>,
       <<227, 119, 194>>, <<247, 182, 210>>, <<127, 127, 127>>, <<199, 199, 199>>,
       <<188, 189, 34>>, <<219, 219, 141>>, <<23, 190, 207>>, <<158, 218, 229>> >>

\* the palette after the module-level loop that divides every channel by 255
tableau20 ==
    [k \in 1 .. Len(tableau20_rgb) |->
        [c \in 1 .. 3 |-> Rat(tableau20_rgb[k][c], 255)]]

\* tableau20[j] for j >= 0
PaletteAt(j) ==
    IF j < Len(tableau20) THEN Ok(tableau20[j + 1]) ELSE Raise("IndexError")

---------------------------------------------------------------------------
(* The explored inputs. *)

StdHead == <<TextLine, TextLine>>

\* the first two lines of a file may hold anything, rows of numbers included
Heads == {StdHead, <<TextLine, BlankLine>>, <<NumLine(<<1, 0>>), NumLine(<<0, 1>>)>>}

Rows2 == {NumLine(<<a, b>>) : a, b \in Vals}

\* two leading lines and up to MaxRows rows of two numbers
TableFiles == {h \o b : h \in Heads, b \in SeqsUpTo(Rows2, MaxRows)}

\* n rows <<0, 1>> with line p replaced by the line bad
Damaged(n, p, bad) ==
    StdHead \o [k \in 1 .. n |-> IF k = p THEN bad ELSE NumLine(<<0, 1>>)]

\* files of fewer than two lines, files with a line that is no number, with
\* rows of unequal width, of one column only, of three columns, and with a
\* blank line between the rows
OddFiles ==
    {<<>>, <<TextLine>>, <<NumLine(<<0, 1>>)>>}
    \cup {Damaged(n, p, bad) : n \in 1 .. MaxRows, p \in 1 .. MaxRows,
                               bad \in {TextLine, BlankLine, NumLine(<<1>>),
                                        NumLine(<<0, 1, 1>>)}}
    \cup {StdHead \o [k \in 1 .. n |-> NumLine(<<k>>)] : n \in 1 .. MaxRows}
    \cup {StdHead \o [k \in 1 .. n |-> NumLine(<<k, 1, k>>)] : n \in 1 .. MaxRows}

\* five replicate rows, the anisotropies 0.20, 0.22, 0.18, 0.24 and 0.21 in
\* hundredths
ReplicateFile ==
    StdHead \o <<NumLine(<<1, 20>>), NumLine(<<2, 22>>), NumLine(<<3, 18>>),
                 NumLine(<<4, 24>>), NumLine(<<5, 21>>)>>

Files == TableFiles \cup OddFiles \cup {ReplicateFile}

\* n rows <<a*r, b + r>>: with a = 0 the x column is all zero
Ramp(n, a, b) == StdHead \o [r \in 1 .. n |-> NumLine(<<a * r, b + r>>)]

\* n rows <<r, r % 2>>: points that lie on no line
Zig(n) == StdHead \o [r \in 1 .. n |-> NumLine(<<r, r % 2>>)]

\* the files multiplot is called with
MultiFiles ==
    {Ramp(2, 1, 0), Ramp(2, 2, 1), Ramp(2, 0, 0), Ramp(3, 1, 0), Zig(3),
     Ramp(1, 1, 0), Ramp(1, 2, 1), Damaged(2, 2, TextLine), Damaged(2, 1, NumLine(<<1>>)),
     StdHead \o <<NumLine(<<1>>), NumLine(<<2>>)>>,
     StdHead \o <<NumLine(<<1, 4, 7>>), NumLine(<<2, 5, 8>>)>>,
     <<TextLine>>}

\* m labels, all different
Labels(m) == [j \in 1 .. m |-> <<"label", j>>]

Powers == {0, 1}

SpectrumArgs == {[fname |-> f, species |-> "species"] : f \in Files}

TimecourseArgs ==
    {[fname |-> f, species |-> "species", temp |-> 25, fit |-> b] :
        f \in Files, b \in BOOLEAN}

PointArgs == {[fname |-> f] : f \in Files}

FitArgs ==
    {[x |-> x, y |-> y, power |-> p] :
        x \in SeqsUpTo(0 .. MaxX, MaxRows), y \in SeqsUpTo(Vals, MaxRows),
        p \in Powers}
    \cup {[x |-> <<0, 1, 2, 3>>, y |-> <<1, 3, 5, 7>>, power |-> 1]}

MultiplotArgs ==
    {[files |-> fs, labels |-> Labels(m)] :
        fs \in SeqsUpTo(MultiFiles, MaxFiles), m \in 0 .. MaxFiles + 1}
    \cup {[files |-> [k \in 1 .. n |-> Ramp(2, 1, 0)], labels |-> Labels(n)] :
            n \in 1 .. MaxSeries}

---------------------------------------------------------------------------
(* What a call returns and what it does. *)

None == [kind |-> "None"]

FigAx == [kind |-> "fig, ax"]

NdArray(v) == [kind |-> "ndarray", v |-> v]

\* the cosmetic calls that end every renderer: spines and tick positions
Style == << <<"spines">>, <<"ticks">> >>

Init ==
    /\ \/ fn = "spectrum_plot" /\ args \in SpectrumArgs
       \/ fn = "timecourse_plot" /\ args \in TimecourseArgs
       \/ fn = "multiplot" /\ args \in MultiplotArgs
       \/ fn = "an_timepoint" /\ args \in PointArgs
       \/ fn = "an_timepoints" /\ args \in PointArgs
       \/ fn = "generate_fit" /\ args \in FitArgs
    /\ pc = "call"
    /\ data = <<>>
    /\ i = 0
    /\ log = <<>>
    /\ ret = None
    /\ err = "none"

\* the exception e leaves the function: nothing is returned
Abort(e) ==
    /\ err' = e
    /\ ret' = None
    /\ pc' = "done"

\* the two columns every single-file function reads: data[:, 0] and data[:, 1]
TwoCols(o) ==
    LET c0 == IF o.ok THEN Col(o.v, 0) ELSE o
        c1 == IF c0.ok THEN Col(o.v, 1) ELSE c0
    IN  IF c1.ok THEN Ok(<<c0.v, c1.v>>) ELSE c1

\* spectrum_plot(fname, species)
SpectrumPlot ==
    /\ fn = "spectrum_plot"
    /\ pc = "call"
    /\ \E o \in LoadTxt(args.fname) :
          LET c == TwoCols(o)
          IN  IF c.ok
              THEN /\ log' = log \o << <<"loadtxt", 0>>, <<"subplots">>,
                                       <<"plot", c.v[1], c.v[2]>>, <<"xlabel">>,
                                       <<"ylabel">>, <<"title", args.species>> >>
                                 \o Style
                   /\ ret' = FigAx
                   /\ err' = "none"
                   /\ pc' = "done"
              ELSE /\ log' = Append(log, <<"loadtxt", 0>>)
                   /\ Abort(c.err)
    /\ UNCHANGED <<fn, args, data, i>>

\* an_timepoint(fname): (an, er), or the exception raised
an_timepoint(file) ==
    {LET c == IF o.ok THEN Col(o.v, 1) ELSE o
     IN  IF c.ok THEN Ok([kind |-> "tuple", an |-> Mean(c.v), er |-> Std(c.v)])
         ELSE c : o \in LoadTxt(file)}

AnTimepoint ==
    /\ fn = "an_timepoint"
    /\ pc = "call"
    /\ \E r \in an_timepoint(args.fname) :
          IF r.ok THEN ret' = r.v /\ err' = "none" /\ pc' = "done" ELSE Abort(r.err)
    /\ log' = Append(log, <<"loadtxt", 0>>)
    /\ UNCHANGED <<fn, args, data, i>>

\* an_timepoints(fname): data[:, 1], or the exception raised
an_timepoints(file) ==
    {LET c == IF o.ok THEN Col(o.v, 1) ELSE o
     IN  IF c.ok THEN Ok(NdArray(c.v)) ELSE c : o \in LoadTxt(file)}

AnTimepoints ==
    /\ fn = "an_timepoints"
    /\ pc = "call"
    /\ \E r \in an_timepoints(args.fname) :
          IF r.ok THEN ret' = r.v /\ err' = "none" /\ pc' = "done" ELSE Abort(r.err)
    /\ log' = Append(log, <<"loadtxt", 0>>)
    /\ UNCHANGED <<fn, args, data, i>>

GenerateFit ==
    /\ fn = "generate_fit"
    /\ pc = "call"
    /\ \E r \in generate_fit(args.x, args.y, args.power) :
          IF r.ok THEN ret' = NdArray(r.v) /\ err' = "none" /\ pc' = "done"
          ELSE Abort(r.err)
    /\ UNCHANGED <<fn, args, data, i, log>>

---------------------------------------------------------------------------
(* timecourse_plot(fname, species, temp, fit), in four steps. *)

\* lines 48-50: load the table and take its two columns
TimecourseLoad ==
    /\ fn = "timecourse_plot"
    /\ pc = "call"
    /\ log' = Append(log, <<"loadtxt", 0>>)
    /\ \E o \in LoadTxt(args.fname) :
          LET c == TwoCols(o)
          IN  IF c.ok
              THEN /\ data' = c.v
                   /\ pc' = "scatter"
                   /\ UNCHANGED <<ret, err>>
              ELSE /\ Abort(c.err)
                   /\ UNCHANGED data
    /\ UNCHANGED <<fn, args, i>>

\* a fit block that is entered whatever the flag says
FitRequestedAlways == TRUE

\* line 59: if fit
FitRequested == args.fit

\* lines 52-56: the figure, the scatter of the data, title and axis labels
TimecourseScatter ==
    /\ fn = "timecourse_plot"
    /\ pc = "scatter"
    /\ log' = log \o << <<"subplots">>, <<"scatter", data[1], data[2]>>,
                        <<"title", args.species, args.temp>>, <<"ylabel">>,
                        <<"xlabel">> >>
    /\ pc' = IF FitRequested THEN "fit" ELSE "return"
    /\ UNCHANGED <<fn, args, data, i, ret, err>>

\* lines 59-61: the fit line over the data, then the printed coefficients.
\* np.polyfit is evaluated twice on the same arguments.
TimecourseFit ==
    /\ fn = "timecourse_plot"
    /\ pc = "fit"
    /\ \E o \in PolyFit(data[1], data[2], 1) :
          IF o.ok
          THEN /\ log' = log \o
                    << <<"polyfit", 1>>,
                       <<"plot", data[1],
                         [k \in 1 .. Len(data[1]) |-> PolyVal(o.v, data[1][k])]>>,
                       <<"polyfit", 1>>,
                       <<"print", "Linear fit parameters: ", o.v>> >>
               /\ pc' = "return"
               /\ UNCHANGED <<ret, err>>
          ELSE /\ log' = Append(log, <<"polyfit", 1>>)
               /\ Abort(o.err)
    /\ UNCHANGED <<fn, args, data, i>>

\* lines 63-69: the cosmetic calls, then return fig, ax
TimecourseReturn ==
    /\ fn = "timecourse_plot"
    /\ pc = "return"
    /\ log' = log \o Style
    /\ ret' = FigAx
    /\ pc' = "done"
    /\ UNCHANGED <<fn, args, data, i, err>>

---------------------------------------------------------------------------
(* multiplot(files, labels), one step per statement or loop iteration. *)

NFiles == Len(args.files)

\* the length check made only after the table is assembled
MultiplotAssertLate ==
    /\ fn = "multiplot"
    /\ pc = "call"
    /\ pc' = "load_first"
    /\ UNCHANGED <<fn, args, data, i, log, ret, err>>

\* line 78: assert len(files) == len(labels)
MultiplotAssert ==
    /\ fn = "multiplot"
    /\ pc = "call"
    /\ IF NFiles = Len(args.labels)
       THEN pc' = "load_first" /\ UNCHANGED <<ret, err>>
       ELSE Abort("AssertionError")
    /\ UNCHANGED <<fn, args, data, i, log>>

\* lines 79-80: the first file's first two columns
MultiplotLoadFirst ==
    /\ fn = "multiplot"
    /\ pc = "load_first"
    /\ IF NFiles = 0
       THEN /\ Abort("IndexError")
            /\ UNCHANGED <<data, i, log>>
       ELSE /\ log' = Append(log, <<"loadtxt", 0>>)
            /\ \E o \in LoadTxt(args.files[1]) :
                  LET d == IF o.ok THEN FirstTwoCols(o.v) ELSE o
                  IN  IF d.ok
                      THEN /\ data' = d.v
                           /\ i' = 1
                           /\ pc' = IF NFiles > 1 THEN "load_next" ELSE "figure"
                           /\ UNCHANGED <<ret, err>>
                      ELSE /\ Abort(d.err)
                           /\ UNCHANGED <<data, i>>
    /\ UNCHANGED <<fn, args>>

\* lines 81-83, one iteration: append the second column of files[i]
MultiplotLoadNext ==
    /\ fn = "multiplot"
    /\ pc = "load_next"
    /\ log' = Append(log, <<"loadtxt", i>>)
    /\ \E o \in LoadTxt(args.files[i + 1]) :
          LET c == IF o.ok THEN Col(o.v, 1) ELSE o
              d == IF c.ok THEN ColumnStack(data, c.v) ELSE c
          IN  IF d.ok
              THEN /\ data' = d.v
                   /\ i' = i + 1
                   /\ pc' = IF i + 1 < NFiles THEN "load_next" ELSE "figure"
                   /\ UNCHANGED <<ret, err>>
              ELSE /\ Abort(d.err)
                   /\ UNCHANGED <<data, i>>
    /\ UNCHANGED <<fn, args>>

\* line 85: fig, ax = plt.subplots(...)
MultiplotFigure ==
    /\ fn = "multiplot"
    /\ pc = "figure"
    /\ log' = Append(log, <<"subplots">>)
    /\ i' = 1
    /\ pc' = "series"
    /\ UNCHANGED <<fn, args, data, ret, err>>

\* np.amin(data[:, 1:])
AminFromCol1(arr) == MinSeq(Concat([r \in 1 .. Len(arr.v) |-> Tail(arr.v[r])]))

\* the height of the annotation of series j: amin - .03 + j*0.008
TextY(arr, j) ==
    RAdd(RSub(RInt(AminFromCol1(arr)), Rat(3, 100)), Rat(8 * j, 1000))

\* lines 86-89, one iteration: the scatter, the fit line and the annotation
\* of series i.  The arguments of ax.scatter are evaluated before the call,
\* so a palette index out of range raises before anything is drawn.
MultiplotSeries ==
    /\ fn = "multiplot"
    /\ pc = "series"
    /\ LET x     == Col(data, 0).v
           y     == Col(data, i).v
           label == args.labels[i]
           color == PaletteAt(i)
       IN  IF ~color.ok
           THEN /\ Abort(color.err)
                /\ UNCHANGED <<i, log>>
           ELSE \E o \in PolyFit(x, y, 1) :
                  \E g \in generate_fit(x, y, 1) :
                     /\ g.ok = o.ok
                     /\ IF o.ok
                        THEN /\ log' = log \o
                                  << <<"scatter", x, y, label, color.v>>,
                                     <<"plot", x, g.v, color.v>>,
                                     <<"text", TextY(data, i), o.v, color.v>> >>
                             /\ i' = i + 1
                             /\ pc' = IF i < NFiles THEN "series" ELSE "finish"
                             /\ UNCHANGED <<ret, err>>
                        ELSE /\ log' = Append(log, <<"scatter", x, y, label, color.v>>)
                             /\ Abort(o.err)
                             /\ UNCHANGED i
    /\ UNCHANGED <<fn, args, data>>

\* lines 90-95: legend, x limits and the cosmetic calls; the function ends
\* without a return statement
MultiplotFinish ==
    /\ fn = "multiplot"
    /\ pc = "finish"
    /\ log' = log \o << <<"legend">>, <<"xlim", 0, MaxSeq(Col(data, 0).v)>> >> \o Style
    /\ ret' = None
    /\ pc' = "done"
    /\ UNCHANGED <<fn, args, data, i, err>>

Next ==
    \/ SpectrumPlot
    \/ TimecourseLoad
    \/ TimecourseScatter
    \/ TimecourseFit
    \/ TimecourseReturn
    \/ MultiplotAssert
    \/ MultiplotLoadFirst
    \/ MultiplotLoadNext
    \/ MultiplotFigure
    \/ MultiplotSeries
    \/ MultiplotFinish
    \/ AnTimepoint
    \/ AnTimepoints
    \/ GenerateFit

Spec == Init /\ [][Next]_vars

---------------------------------------------------------------------------
(* Vocabulary of the properties: what a file holds, read off its lines     *)
(* without the loader, and what the log holds.                             *)

Range(s) == {s[k] : k \in 1 .. Len(s)}

\* the lines after the first two, blank lines left out
DataRows(file) == SelectSeq(SubSeq(file, 3, Len(file)), LAMBDA l : l.kind # "blank")

RowCount(file) == Len(DataRows(file))

\* two leading lines of any content, then n >= 1 rows of exactly two numbers
IsTwoColumnFile(file) ==
    /\ Len(file) >= 3
    /\ \A k \in 3 .. Len(file) : file[k].kind = "num" /\ Len(file[k].vals) = 2

\* two leading lines, then n >= 1 rows of numbers, all of one width >= 2
IsTable(file) ==
    /\ Len(file) >= 2
    /\ RowCount(file) >= 1
    /\ \A k \in 1 .. RowCount(file) :
          /\ DataRows(file)[k].kind = "num"
          /\ Len(DataRows(file)[k].vals) = Len(DataRows(file)[1].vals)
          /\ Len(DataRows(file)[k].vals) >= 2

\* column j (counted from 0) of the rows of a table
FileCol(file, j) == [k \in 1 .. RowCount(file) |-> DataRows(file)[k].vals[j + 1]]

\* fewer than two lines, a row that is no number, rows of unequal width, or
\* rows with no second column
Defective(file) ==
    \/ Len(file) < 2
    \/ \E k \in 1 .. RowCount(file) : DataRows(file)[k].kind = "text"
    \/ \E j, k \in 1 .. RowCount(file) :
          Len(DataRows(file)[j].vals) # Len(DataRows(file)[k].vals)
    \/ \E k \in 1 .. RowCount(file) :
          DataRows(file)[k].kind = "num" /\ Len(DataRows(file)[k].vals) < 2

Events(tag) == SelectSeq(log, LAMBDA e : e[1] = tag)

Count(tag) == Len(Events(tag))

InputFiles ==
    IF fn = "multiplot" THEN Range(args.files)
    ELSE IF fn = "generate_fit" THEN {}
    ELSE {args.fname}

\* a multiplot call with as many labels as files, every file a table, all
\* tables of one row count
EqualTables ==
    /\ fn = "multiplot"
    /\ NFiles >= 1
    /\ Len(args.labels) = NFiles
    /\ \A k \in 1 .. NFiles :
          IsTable(args.files[k]) /\ RowCount(args.files[k]) = RowCount(args.files[1])

\* the x values of the first file are not all zero: np.polyfit divides the
\* x column by its norm
FitSolvable == \E a \in Range(FileCol(args.files[1], 0)) : a # 0

---------------------------------------------------------------------------
(* C1 *)

\* C1: for every file of two leading lines and n >= 1 rows of two numbers,
\* n = 1 included, an_timepoints returns the second-column values of the
\* rows in file order, n of them, whatever the first two lines hold.
C1_TimepointsReturnSecondColumn ==
    (fn = "an_timepoints" /\ pc = "done" /\ IsTwoColumnFile(args.fname))
        => /\ err = "none"
           /\ ret = NdArray(FileCol(args.fname, 1))

\* C1 from two rows on: the same statement for n >= 2, which the code meets.
C1_FromTwoRows ==
    (fn = "an_timepoints" /\ pc = "done" /\ IsTwoColumnFile(args.fname)
        /\ RowCount(args.fname) >= 2)
        => /\ err = "none"
           /\ ret = NdArray(FileCol(args.fname, 1))
           /\ Len(ret.v) = Len(args.fname) - 2

---------------------------------------------------------------------------
(* C2 *)

\* C2: a multiplot call whose files and labels differ in length ends with the
\* assertion error and with nothing else done: no file loaded, no figure, no
\* scatter, no fit line, no annotation, no table, nothing returned.  The
\* length check is the first step of every call.
C2_LengthCheckFirst ==
    (fn = "multiplot" /\ NFiles # Len(args.labels))
        => /\ pc \in {"call", "done"}
           /\ pc = "done" => err = "AssertionError"
           /\ log = <<>>
           /\ data = <<>>
           /\ ret = None

\* C2 witness: three files and two labels have been refused
C2_Witness ==
    /\ fn = "multiplot"
    /\ NFiles = 3
    /\ Len(args.labels) = 2
    /\ pc = "done"
    /\ err = "AssertionError"

---------------------------------------------------------------------------
(* C3 *)

\* C3: for every number of series, 20 and more included, the palette index
\* multiplot uses for a series lies in 0..19, and every series of a call that
\* loads and fits is drawn in an entry of the palette.
C3_PaletteIndexInRange ==
    /\ (fn = "multiplot" /\ pc = "series") => i \in 0 .. 19
    /\ (EqualTables /\ RowCount(args.files[1]) >= 2 /\ FitSolvable /\ pc = "done")
          => /\ Count("scatter") = NFiles
             /\ \A k \in 1 .. Count("scatter") :
                   Events("scatter")[k][5] \in Range(tableau20)

\* C3 up to 19 series: series k is drawn in palette entry k (entry 0 is
\* never used), which the code meets.
C3_UpTo19Series ==
    (EqualTables /\ RowCount(args.files[1]) >= 2 /\ FitSolvable /\ pc = "done"
        /\ NFiles <= 19)
        => /\ Count("scatter") = NFiles
           /\ \A k \in 1 .. NFiles : Events("scatter")[k][5] = tableau20[k + 1]

---------------------------------------------------------------------------
(* C4 *)

\* C4: a multiplot call that completes without error returns the plot, as
\* spectrum_plot and timecourse_plot do.
C4_MultiplotReturnsPlot ==
    (fn \in {"multiplot", "spectrum_plot", "timecourse_plot"} /\ pc = "done"
        /\ err = "none")
        => ret = FigAx

---------------------------------------------------------------------------
(* C5 *)

\* C5: for every file of two leading lines and N >= 1 rows of two numbers,
\* an_timepoint returns (mean, stddev) with mean = (sum v)/N and
\* N^2 * stddev^2 = N * sum(v^2) - (sum v)^2 over the second column v.
C5_MeanAndPopulationStd ==
    (fn = "an_timepoint" /\ pc = "done" /\ IsTwoColumnFile(args.fname))
        => LET v == FileCol(args.fname, 1)
               N == Len(v)
           IN  /\ err = "none"
               /\ ret.an.n * N = SumSeq(v) * ret.an.d
               /\ N * N * ret.er.sqrt_of.n
                     = (N * Dot(v, v) - SumSeq(v) * SumSeq(v)) * ret.er.sqrt_of.d

\* C5 from two rows on: the same statement for N >= 2, which the code meets.
C5_FromTwoRows ==
    (fn = "an_timepoint" /\ pc = "done" /\ IsTwoColumnFile(args.fname)
        /\ RowCount(args.fname) >= 2)
        => LET v == FileCol(args.fname, 1)
               N == Len(v)
           IN  /\ err = "none"
               /\ ret.an.n * N = SumSeq(v) * ret.an.d
               /\ N * N * ret.er.sqrt_of.n
                     = (N * Dot(v, v) - SumSeq(v) * SumSeq(v)) * ret.er.sqrt_of.d

---------------------------------------------------------------------------
(* C6 *)

\* the points (x[k], y[k]) lie on one straight line
OnALine(x, y) ==
    \A j, k, l \in 1 .. Len(x) :
        (y[k] - y[j]) * (x[l] - x[j]) = (y[l] - y[j]) * (x[k] - x[j])

\* the same for rational ordinates f
RatOnALine(x, f) ==
    \A j, k, l \in 1 .. Len(x) :
        RMul(RSub(f[k], f[j]), RInt(x[l] - x[j]))
            = RMul(RSub(f[l], f[j]), RInt(x[k] - x[j]))

\* f takes one value wherever x takes one value
AlignedWith(x, f) == \A j, k \in 1 .. Len(x) : x[j] = x[k] => f[j] = f[k]

\* the residual f - y is orthogonal to x^m: the normal equation of degree m
Power(b, m) == IF m = 0 THEN 1 ELSE b
NormalEquation(x, y, f, m) ==
    RSum([k \in 1 .. Len(x) |->
            RMul(RSub(f[k], RInt(y[k])), RInt(Power(x[k], m)))]) = RInt(0)

\* C6: generate_fit(x, y, power) returns one value for each x[k], in the
\* order of x, and these values are the least-squares polynomial of degree
\* power evaluated at x[k]: they lie on a polynomial of that degree in x and
\* their residual against y satisfies the normal equations.  For power = 1
\* and data on a line with at least two distinct x values they equal y
\* element by element.
C6_FitAlignedAndExactOnLines ==
    (fn = "generate_fit" /\ pc = "done" /\ err = "none")
        => LET x == args.x
               y == args.y
               f == ret.v
           IN  /\ ret.kind = "ndarray"
               /\ Len(f) = Len(x)
               /\ (\A k \in 1 .. Len(f) : ~IsNaN(f[k]))
                     => /\ AlignedWith(x, f)
                        /\ args.power = 0 => \A j, k \in 1 .. Len(f) : f[j] = f[k]
                        /\ args.power = 1 => RatOnALine(x, f)
                        /\ \A m \in 0 .. args.power : NormalEquation(x, y, f, m)
               /\ (args.power = 1 /\ OnALine(x, y) /\ \E j, k \in 1 .. Len(x) : x[j] # x[k])
                     => \A k \in 1 .. Len(x) : f[k] = RInt(y[k])

\* C6 witness: the fit of y = 2x + 1 at x = 0, 1, 2, 3 has returned 1, 3, 5, 7
C6_Witness ==
    /\ fn = "generate_fit"
    /\ pc = "done"
    /\ args.x = <<0, 1, 2, 3>>
    /\ args.power = 1
    /\ ret = NdArray(<<RInt(1), RInt(3), RInt(5), RInt(7)>>)

---------------------------------------------------------------------------
(* C7 *)

\* C7: in every loader-based function a file of fewer than two lines, a file
\* whose rows are not uniformly numeric, or a table without the column the
\* function reads makes the call fail: it ends with the exception, nothing
\* is returned, nothing is plotted or printed, and no file is read twice.
C7_DefectiveFileFails ==
    (\E f \in InputFiles : Defective(f))
        => /\ pc \in {"call", "load_first", "load_next", "done"}
           /\ pc = "done" => err # "none"
           /\ ret = None
           /\ \A k \in 1 .. Len(log) : log[k][1] = "loadtxt"
           /\ \A j, k \in 1 .. Len(log) : j < k => log[j][2] < log[k][2]

\* C7 witness: timecourse_plot has failed on a file whose second row is text
C7_Witness ==
    /\ fn = "timecourse_plot"
    /\ args.fname = Damaged(2, 2, TextLine)
    /\ pc = "done"
    /\ err = "ValueError"
    /\ ret = None

---------------------------------------------------------------------------
(* C8 *)

\* the table assembled by multiplot: column 0 is the first column of
\* files[0], column j the second column of files[j-1]
TableAssembled ==
    /\ data.ndim = 2
    /\ Width(data) = NFiles + 1
    /\ Col(data, 0).v = FileCol(args.files[1], 0)
    /\ \A j \in 1 .. NFiles : Col(data, j).v = FileCol(args.files[j], 1)

\* the k-th scatter shows column k against column 0 under labels[k-1]
SeriesPaired(k) ==
    /\ Events("scatter")[k][2] = FileCol(args.files[1], 0)
    /\ Events("scatter")[k][3] = FileCol(args.files[k], 1)
    /\ Events("scatter")[k][4] = args.labels[k]

\* C8: in multiplot with k >= 1 files of equal row count the table after the
\* loading loop has k+1 columns, column 0 from the first file and column j
\* the second column of the j-th file; series j is drawn from column j with
\* the j-th label, and every file gets exactly one scatter, one fit line and
\* one annotation.  Stated for tables of two or more rows whose x values are
\* not all zero, where loading and fitting succeed.
C8_OneSeriesPerFile ==
    /\ (fn = "multiplot" /\ pc \in {"figure", "series", "finish"}) => TableAssembled
    /\ (EqualTables /\ RowCount(args.files[1]) >= 2 /\ FitSolvable /\ pc = "done")
          => /\ Count("scatter") = NFiles
             /\ Count("plot") = NFiles
             /\ Count("text") = NFiles
             /\ \A k \in 1 .. NFiles : SeriesPaired(k)

\* C8 up to 19 files: the same statement, which the code meets.
C8_UpTo19Files ==
    /\ (fn = "multiplot" /\ pc \in {"figure", "series", "finish"}) => TableAssembled
    /\ (EqualTables /\ RowCount(args.files[1]) >= 2 /\ FitSolvable /\ pc = "done"
           /\ NFiles <= 19)
          => /\ Count("scatter") = NFiles
             /\ Count("plot") = NFiles
             /\ Count("text") = NFiles
             /\ \A k \in 1 .. NFiles : SeriesPaired(k)

---------------------------------------------------------------------------
(* C9 *)

\* the position of the first event with this tag in the log, 0 if none
FirstAt(tag) ==
    IF Count(tag) = 0 THEN 0
    ELSE CHOOSE k \in 1 .. Len(log) :
            log[k][1] = tag /\ \A j \in 1 .. k - 1 : log[j][1] # tag

\* C9: once the table is loaded (lines 48-50) timecourse_plot draws the scatter of the
\* data, whatever the fit flag, and a call that completes returns the plot.
\* The fit line is overlaid once and the coefficient text is printed once,
\* slope first and intercept second, if and only if the flag is true; with
\* the flag false no fit is computed.  The fit step comes after the scatter
\* and before the return.  (np.polyfit itself is evaluated once for the line
\* and once more for the text, on the same arguments.)
C9_FitOnlyWhenRequested ==
    fn = "timecourse_plot"
        => /\ (data # <<>> /\ pc # "scatter")
                 => /\ Count("scatter") = 1
                    /\ Events("scatter")[1]
                          = <<"scatter", FileCol(args.fname, 0), FileCol(args.fname, 1)>>
           /\ (pc = "done" /\ err = "none") => ret = FigAx
           /\ ret = FigAx
                 => /\ pc = "done"
                    /\ Count("scatter") = 1
                    /\ args.fit <=> Count("plot") = 1
                    /\ args.fit <=> Count("print") = 1
                    /\ args.fit <=> Count("polyfit") > 0
           /\ ~args.fit
                 => Count("polyfit") = 0 /\ Count("plot") = 0 /\ Count("print") = 0
           /\ Count("plot") <= 1 /\ Count("print") <= 1
           /\ \A k \in 1 .. Len(log) :
                 log[k][1] \in {"polyfit", "plot", "print"}
                    => FirstAt("scatter") > 0 /\ FirstAt("scatter") < k
           /\ Count("print") = 1
                 => LET c == Events("print")[1][3]
                        x == FileCol(args.fname, 0)
                        y == FileCol(args.fname, 1)
                        N == Len(x)
                        D == N * Dot(x, x) - SumSeq(x) * SumSeq(x)
                    IN  /\ Len(c) = 2
                        /\ FirstAt("plot") < FirstAt("print")
                        /\ ~IsNaN(c[1])
                              => Events("plot")[1][3]
                                    = [k \in 1 .. N |->
                                         RAdd(RMul(c[1], RInt(x[k])), c[2])]
                        /\ D # 0 => c[1] = Rat(N * Dot(x, y) - SumSeq(x) * SumSeq(y), D)

\* C9 witness: a call with the flag set has returned the plot after printing
\* a slope that differs from the intercept
C9_Witness ==
    /\ fn = "timecourse_plot"
    /\ args.fit
    /\ pc = "done"
    /\ ret = FigAx
    /\ Count("print") = 1
    /\ Events("print")[1][3][1] # Events("print")[1][3][2]
    /\ Events("print")[1][3][1] # RInt(0)

---------------------------------------------------------------------------
(* C10 *)

\* file k is a table and the first whose row count differs from the first
\* file's, and the files before it are tables of two or more rows
FirstMismatchAt(k) ==
    /\ fn = "multiplot"
    /\ Len(args.labels) = NFiles
    /\ k \in 2 .. NFiles
    /\ IsTable(args.files[1])
    /\ RowCount(args.files[1]) >= 2
    /\ \A j \in 1 .. k - 1 :
          IsTable(args.files[j]) /\ RowCount(args.files[j]) = RowCount(args.files[1])
    /\ IsTable(args.files[k])
    /\ RowCount(args.files[k]) # RowCount(args.files[1])

\* multiplot aborts on unequal row counts before the figure exists; it
\* aborts at line 83 for the file that differs, leaving the table as the
\* files before it made it
AbortsOnRowMismatch ==
    /\ (fn = "multiplot" /\ NFiles >= 1
           /\ \E k \in 2 .. NFiles : RowCount(args.files[k]) # RowCount(args.files[1]))
          => /\ pc \in {"call", "load_first", "load_next", "done"}
             /\ pc = "done" => err # "none"
             /\ \A k \in 1 .. Len(log) : log[k][1] = "loadtxt"
             /\ ret = None
    /\ \A k \in 2 .. MaxFiles :
          (FirstMismatchAt(k) /\ pc = "done")
             => /\ log = [j \in 1 .. k |-> <<"loadtxt", j - 1>>]
                /\ err \in {"ValueError", "IndexError"}
                /\ data.ndim = 2
                /\ Width(data) = k
                /\ Len(data.v) = RowCount(args.files[1])

\* every series drawn is drawn against the x values of the first file
PlottedAgainstFirstX ==
    \A k \in 1 .. Count("scatter") :
        Events("scatter")[k][2] = FileCol(args.files[1], 0)

\* some file after the first has other x values than the first
DifferentX ==
    \E k \in 2 .. NFiles : FileCol(args.files[k], 0) # FileCol(args.files[1], 0)

\* C10: if a file after the first has another number of rows than the first
\* file, multiplot aborts while assembling the table, at that file, before
\* the figure is created and before any series is drawn.  Files of one row
\* count and different x values are accepted without error and drawn
\* against the x values of the first file.  The second half is stated for at
\* most 19 files whose x values are not all zero, which leaves the palette
\* and the unsolvable fit aside.
C10_RowCountsDecideAcceptance ==
    /\ AbortsOnRowMismatch
    /\ (EqualTables /\ DifferentX /\ NFiles <= 19 /\ FitSolvable /\ pc = "done")
          => /\ err = "none"
             /\ Count("scatter") = NFiles
             /\ PlottedAgainstFirstX

\* C10 from two rows on: the same statement for tables of two or more rows,
\* which the code meets.
C10_FromTwoRows ==
    /\ AbortsOnRowMismatch
    /\ (EqualTables /\ RowCount(args.files[1]) >= 2 /\ NFiles <= 19 /\ FitSolvable
           /\ pc = "done")
          => /\ err = "none"
             /\ Count("scatter") = NFiles
             /\ PlottedAgainstFirstX

====
